---- MODULE Spec2Model ----
(***************************************************************************)
(* A model of CalendarApp.py: the "Generate ICS" handler (generate_ics),   *)
(* the extractor's response handling (parse_event) and the calendar record *)
(* builder (create_ics_file), with the file-open handoff                   *)
(* (import_ics_to_calendar).                                               *)
(*                                                                         *)
(* Text is a sequence of one-character strings, so that strptime really    *)
(* parses.  A JSON / Python value is a tagged record:                      *)
(*   [t |-> "null"]  [t |-> "str", s |-> text]  [t |-> "num", n |-> int]   *)
(*   [t |-> "list", items |-> seq of values]  [t |-> "obj", f |-> dict]    *)
(* where a dict is a function from a set of key strings to values.         *)
(***************************************************************************)
EXTENDS Integers, Sequences, FiniteSets, TLC

(***************************************************************************)
(* Bounds of the model                                                     *)
(***************************************************************************)
\* input lines of one batch
MaxLines == 3
\* candidate events in one upstream response
MaxEvents == 2
\* calendar years after 2023 that the inputs of the builder range over
YearSpan == 1

(***************************************************************************)
(* Values                                                                  *)
(***************************************************************************)
NullV == [t |-> "null"]
StrV(s) == [t |-> "str", s |-> s]
NumV(n) == [t |-> "num", n |-> n]
ListV(items) == [t |-> "list", items |-> items]
ObjV(f) == [t |-> "obj", f |-> f]

IsStr(v) == v.t = "str"
IsNull(v) == v.t = "null"

\* Python truthiness of a value (`if v`, `not v`, `a or b`)
Truthy(v) ==
  CASE v.t = "null" -> FALSE
    [] v.t = "str" -> v.s # <<>>
    [] v.t = "num" -> v.n # 0
    [] v.t = "list" -> v.items # <<>>
    [] v.t = "obj" -> DOMAIN v.f # {}
    [] OTHER -> TRUE

(***************************************************************************)
(* Text                                                                    *)
(***************************************************************************)
Digits == <<"0", "1", "2", "3", "4", "5", "6", "7", "8", "9">>
IsDigit(c) == \E i \in 1..10 : Digits[i] = c
DigitVal(c) == (CHOOSE i \in 1..10 : Digits[i] = c) - 1
IsSpace(c) == c \in {" ", "\t"}

AllDigits(s) == \A i \in 1..Len(s) : IsDigit(s[i])

RECURSIVE NumOf(_)
NumOf(s) == IF s = <<>> THEN 0
            ELSE 10 * NumOf(SubSeq(s, 1, Len(s) - 1)) + DigitVal(s[Len(s)])

\* n written with exactly w digits (w = 2 or 4 here), zero padded
RECURSIVE Pad(_, _)
Pad(n, w) == IF w = 0 THEN <<>>
             ELSE Append(Pad(n \div 10, w - 1), Digits[(n % 10) + 1])

\* the pieces of s between occurrences of the character sep
RECURSIVE Split(_, _)
Split(s, sep) ==
  IF \A i \in 1..Len(s) : s[i] # sep THEN <<s>>
  ELSE LET k == CHOOSE i \in 1..Len(s) : s[i] = sep /\ \A j \in 1..(i - 1) : s[j] # sep
       IN <<SubSeq(s, 1, k - 1)>> \o Split(SubSeq(s, k + 1, Len(s)), sep)

\* str.strip(): leading and trailing whitespace removed
RECURSIVE LStrip(_)
LStrip(s) == IF s # <<>> /\ IsSpace(s[1]) THEN LStrip(Tail(s)) ELSE s
RECURSIVE RStrip(_)
RStrip(s) == IF s # <<>> /\ IsSpace(s[Len(s)]) THEN RStrip(SubSeq(s, 1, Len(s) - 1)) ELSE s
Strip(s) == RStrip(LStrip(s))

(***************************************************************************)
(* datetime: proleptic Gregorian ordinals, as date + timedelta uses them   *)
(***************************************************************************)
IsLeap(y) == y % 4 = 0 /\ (y % 100 # 0 \/ y % 400 = 0)
DaysInMonthTable == <<31, 28, 31, 30, 31, 30, 31, 31, 30, 31, 30, 31>>
DaysInMonth(y, m) == IF m = 2 /\ IsLeap(y) THEN 29 ELSE DaysInMonthTable[m]
DaysBeforeYear(y) == (y - 1) * 365 + (y - 1) \div 4 - (y - 1) \div 100 + (y - 1) \div 400
DaysBeforeMonthTable == <<0, 31, 59, 90, 120, 151, 181, 212, 243, 273, 304, 334>>
DaysBeforeMonth(y, m) == DaysBeforeMonthTable[m] + (IF m > 2 /\ IsLeap(y) THEN 1 ELSE 0)
Ymd2Ord(y, m, d) == DaysBeforeYear(y) + DaysBeforeMonth(y, m) + d
\* date.max.toordinal(), 9999-12-31
MaxOrdinal == Ymd2Ord(9999, 12, 31)

Ord2Ymd(ord) ==
  LET n0 == ord - 1
      n400 == n0 \div 146097
      r400 == n0 % 146097
      n100 == r400 \div 36524
      r100 == r400 % 36524
      n4 == r100 \div 1461
      r4 == r100 % 1461
      n1 == r4 \div 365
      n == r4 % 365
      year == n400 * 400 + 1 + n100 * 100 + n4 * 4 + n1
      leapyear == n1 = 3 /\ (n4 # 24 \/ n100 = 3)
      before(mm) == DaysBeforeMonthTable[mm] + (IF mm > 2 /\ leapyear THEN 1 ELSE 0)
      m0 == (n + 50) \div 32
      month == IF before(m0) > n THEN m0 - 1 ELSE m0
  IN IF n1 = 4 \/ n100 = 4
     THEN [y |-> year - 1, m |-> 12, d |-> 31]
     ELSE [y |-> year, m |-> month, d |-> n - before(month) + 1]

\* date(...) + timedelta(days=n)
DateAddDays(dt, n) ==
  LET o == Ymd2Ord(dt.y, dt.m, dt.d) + n
  IN IF 0 < o /\ o <= MaxOrdinal
     THEN [ok |-> TRUE, v |-> [kind |-> "date"] @@ Ord2Ymd(o)]
     ELSE [ok |-> FALSE, err |-> "OverflowError"]

\* datetime(...) + timedelta(hours=n): days and seconds are normalised by divmod
DateTimeAddHours(dt, n) ==
  LET mins == dt.H * 60 + dt.M + n * 60
      days == Ymd2Ord(dt.y, dt.m, dt.d) + mins \div 1440
      rem == mins % 1440
  IN IF 0 < days /\ days <= MaxOrdinal
     THEN [ok |-> TRUE,
           v |-> [kind |-> "datetime", H |-> rem \div 60, M |-> rem % 60,
                  tzinfo |-> dt.tzinfo] @@ Ord2Ymd(days)]
     ELSE [ok |-> FALSE, err |-> "OverflowError"]

(***************************************************************************)
(* datetime.strptime for the two formats the builder uses                  *)
(***************************************************************************)
ValueError == [ok |-> FALSE, err |-> "ValueError"]

\* %Y  \d\d\d\d
YearField(s) == Len(s) = 4 /\ AllDigits(s)
\* %m  1[0-2]|0[1-9]|[1-9]
MonthField(s) == /\ Len(s) \in {1, 2}
                 /\ AllDigits(s)
                 /\ NumOf(s) \in 1..12
\* %d  3[01]|[12]\d|0[1-9]|[1-9]| [1-9]
DayField(s) == \/ Len(s) \in {1, 2} /\ AllDigits(s) /\ NumOf(s) \in 1..31
               \/ Len(s) = 2 /\ s[1] = " " /\ IsDigit(s[2]) /\ s[2] # "0"
\* %H  2[0-3]|[0-1]\d|\d
HourField(s) == Len(s) \in {1, 2} /\ AllDigits(s) /\ NumOf(s) \in 0..23
\* %M  [0-5]\d|\d
MinuteField(s) == Len(s) \in {1, 2} /\ AllDigits(s) /\ NumOf(s) \in 0..59

\* the date constructor's own range checks
ValidYmd(y, m, d) == y \in 1..9999 /\ m \in 1..12 /\ d \in 1..DaysInMonth(y, m)

\* datetime.strptime(s, "%Y-%m-%d").date()
StrptimeDate(s) ==
  LET p == Split(s, "-")
  IN IF Len(p) = 3 /\ YearField(p[1]) /\ MonthField(p[2]) /\ DayField(p[3])
     THEN LET y == NumOf(p[1])
              m == NumOf(p[2])
              d == NumOf(LStrip(p[3]))
          IN IF ValidYmd(y, m, d)
             THEN [ok |-> TRUE, v |-> [kind |-> "date", y |-> y, m |-> m, d |-> d]]
             ELSE ValueError
     ELSE ValueError

\* the day field of "<day><whitespace><rest>": the text before the first
\* whitespace that follows at least one character
DayEnd(s) ==
  IF \E i \in 2..Len(s) : IsSpace(s[i])
  THEN (CHOOSE i \in 2..Len(s) : IsSpace(s[i]) /\ \A j \in 2..(i - 1) : ~IsSpace(s[j])) - 1
  ELSE 0

\* datetime.strptime(s, "%Y-%m-%d %H:%M"); the blank of the format matches \s+
StrptimeDateTime(s) ==
  LET p == Split(s, "-")
  IN IF Len(p) = 3 /\ YearField(p[1]) /\ MonthField(p[2]) /\ DayEnd(p[3]) > 0
     THEN LET k == DayEnd(p[3])
              dd == SubSeq(p[3], 1, k)
              hm == Split(LStrip(SubSeq(p[3], k + 1, Len(p[3]))), ":")
          IN IF DayField(dd) /\ Len(hm) = 2 /\ HourField(hm[1]) /\ MinuteField(hm[2])
                /\ ValidYmd(NumOf(p[1]), NumOf(p[2]), NumOf(LStrip(dd)))
             THEN [ok |-> TRUE,
                   v |-> [kind |-> "datetime", y |-> NumOf(p[1]), m |-> NumOf(p[2]),
                          d |-> NumOf(LStrip(dd)), H |-> NumOf(hm[1]), M |-> NumOf(hm[2]),
                          tzinfo |-> NullV]]
             ELSE ValueError
     ELSE ValueError

\* strftime("%Y-%m-%d") of a date
IsoDate(dt) == Pad(dt.y, 4) \o <<"-">> \o Pad(dt.m, 2) \o <<"-">> \o Pad(dt.d, 2)
\* "HH:MM"
IsoTime(h, mi) == Pad(h, 2) \o <<":">> \o Pad(mi, 2)

(***************************************************************************)
(* CalendarEvent (the pydantic model) and create_ics_file                  *)
(***************************************************************************)
FieldNames == {"name", "start_date", "end_date", "start_time", "end_time",
               "timezone", "participants", "location", "content"}
StrFields == {"name", "start_date"}
OptStrFields == {"end_date", "start_time", "end_time", "timezone", "location", "content"}

Mailto == <<"M", "A", "I", "L", "T", "O", ":">>
Prodid == "-//Calendar Event Generator//mxm.dk//"
Version == "2.0"

\* f"{a} {b}"
Joined(a, b) == a \o <<" ">> \o b

\* `a or b`
OrElse(a, b) == IF Truthy(a) THEN a ELSE b

\* (mutant) the raw end date, without the added day
AllDayEndRaw(end_date) == DateAddDays(end_date, 0)
\* dtend of an all-day event: end_date + timedelta(days=1)
AllDayEnd(end_date) == DateAddDays(end_date, 1)

\* (mutant) the hour advanced on the same day: replace(hour=(hour + 1) % 24)
DefaultEndSameDay(start_datetime) ==
  [ok |-> TRUE, v |-> [start_datetime EXCEPT !.H = (start_datetime.H + 1) % 24]]
\* dtend of a timed event without end_time: start_datetime + timedelta(hours=1)
DefaultEnd(start_datetime) == DateTimeAddHours(start_datetime, 1)

\* dtend of a timed event with end_time
TimedEnd(event) ==
  StrptimeDateTime(Joined(OrElse(event.end_date, event.start_date).s, event.end_time.s))

\* the attendee properties, one per participant
Attendees(event) ==
  IF Truthy(event.participants)
  THEN [i \in 1..Len(event.participants.items) |->
          Mailto \o event.participants.items[i].s]
  ELSE <<>>

\* The calendar create_ics_file builds for an event, or the exception it raises.
BuildCalendar(event) ==
  LET start_date == StrptimeDate(event.start_date.s)
      end_date == IF Truthy(event.end_date) THEN StrptimeDate(event.end_date.s)
                  ELSE start_date
      timed == Truthy(event.start_time)
      start_datetime == StrptimeDateTime(Joined(event.start_date.s, event.start_time.s))
      end_datetime == IF Truthy(event.end_time) THEN TimedEnd(event)
                      ELSE DefaultEnd(start_datetime.v)
      dtstart == IF timed THEN start_datetime ELSE start_date
      dtend == IF timed THEN end_datetime ELSE AllDayEnd(end_date.v)
  IN IF ~start_date.ok THEN start_date
     ELSE IF ~end_date.ok THEN end_date
     ELSE IF ~dtstart.ok THEN dtstart
     ELSE IF ~dtend.ok THEN dtend
     ELSE [ok |-> TRUE,
           cal |-> [prodid |-> Prodid, version |-> Version,
                    summary |-> event.name.s,
                    dtstart |-> dtstart.v, dtend |-> dtend.v,
                    location |-> IF Truthy(event.location) THEN event.location
                                 ELSE NullV,
                    attendee |-> Attendees(event)]]

(***************************************************************************)
(* parse_event: what it does with the upstream response                    *)
(***************************************************************************)
UntitledEvent == <<"U", "n", "t", "i", "t", "l", "e", "d", " ", "E", "v", "e", "n", "t">>

\* str(n) of a natural number
RECURSIVE DecText(_)
DecText(n) == IF n < 10 THEN <<Digits[n + 1]>>
              ELSE Append(DecText(n \div 10), Digits[(n % 10) + 1])

\* pydantic's str validator: major version 1 also takes numbers, as their text
CoerceStr(v, major) ==
  CASE v.t = "str" -> [ok |-> TRUE, v |-> v]
    [] v.t = "num" /\ major = 1 -> [ok |-> TRUE, v |-> StrV(DecText(v.n))]
    [] OTHER -> [ok |-> FALSE]

\* Optional[str]
CoerceOptStr(v, major) == IF v.t = "null" THEN [ok |-> TRUE, v |-> NullV]
                          ELSE CoerceStr(v, major)

\* Optional[List[str]]
CoerceOptList(v, major) ==
  CASE v.t = "null" -> [ok |-> TRUE, v |-> NullV]
    [] v.t = "list" ->
         IF \A i \in 1..Len(v.items) : CoerceStr(v.items[i], major).ok
         THEN [ok |-> TRUE,
               v |-> ListV([i \in 1..Len(v.items) |-> CoerceStr(v.items[i], major).v])]
         ELSE [ok |-> FALSE]
    [] OTHER -> [ok |-> FALSE]

\* dict.get(key) with None for a missing key
Get(f, key) == IF key \in DOMAIN f THEN f[key] ELSE NullV

\* CalendarEvent.parse_obj(event): the record, or a validation error
ParseObj(f, major) ==
  LET field(k) == IF k \in StrFields
                  THEN (IF k \in DOMAIN f THEN CoerceStr(f[k], major) ELSE [ok |-> FALSE])
                  ELSE IF k = "participants" THEN CoerceOptList(Get(f, k), major)
                  ELSE CoerceOptStr(Get(f, k), major)
  IN IF \A k \in FieldNames : field(k).ok
     THEN [ok |-> TRUE, v |-> [k \in FieldNames |-> field(k).v]]
     ELSE [ok |-> FALSE]

\* the list parse_event iterates over, from the decoded response
NormalizeShape(parsed_data) ==
  CASE parsed_data.t = "list" -> [ok |-> TRUE, events |-> parsed_data]
    [] parsed_data.t = "obj" ->
         [ok |-> TRUE,
          events |-> IF "events" \in DOMAIN parsed_data.f THEN parsed_data.f["events"]
                     ELSE ListV(<<parsed_data>>)]
    [] OTHER -> ValueError

\* `for event in events`: the items iterated, or TypeError when not iterable
KeysOf(f) ==
  LET RECURSIVE ks(_)
      ks(S) == IF S = {} THEN <<>>
               ELSE LET k == CHOOSE x \in S : TRUE IN <<StrV(<<k>>)>> \o ks(S \ {k})
  IN ks(DOMAIN f)
Iterate(events) ==
  CASE events.t = "list" -> [ok |-> TRUE, items |-> events.items]
    [] events.t = "obj" -> [ok |-> TRUE, items |-> KeysOf(events.f)]
    [] events.t = "str" ->
         [ok |-> TRUE, items |-> [i \in 1..Len(events.s) |-> StrV(<<events.s[i]>>)]]
    [] OTHER -> [ok |-> FALSE, err |-> "TypeError"]

\* (mutant) only a missing key is defaulted, an empty name is kept
DefaultNameIfMissing(event) ==
  IF "name" \notin DOMAIN event.f THEN StrV(UntitledEvent) ELSE event.f["name"]
\* the value substituted for a name that is missing or falsy
DefaultName(event) ==
  IF "name" \notin DOMAIN event.f \/ ~Truthy(event.f["name"])
  THEN StrV(UntitledEvent) ELSE event.f["name"]
\* the value substituted for a start_date that is missing or falsy
DefaultStartDate(event, current_date) ==
  IF "start_date" \notin DOMAIN event.f \/ ~Truthy(event.f["start_date"])
  THEN StrV(current_date) ELSE event.f["start_date"]

\* "Ensure required fields are present": only a dict supports the membership
\* test, the subscript and the item assignment; anything else raises TypeError
RepairCandidate(event, current_date) ==
  IF event.t = "obj"
  THEN [ok |-> TRUE,
        f |-> [k \in DOMAIN event.f \cup {"name", "start_date"} |->
                 CASE k = "name" -> DefaultName(event)
                   [] k = "start_date" -> DefaultStartDate(event, current_date)
                   [] OTHER -> event.f[k]]]
  ELSE [ok |-> FALSE, err |-> "TypeError"]

\* the validation loop: records kept, with the index of the candidate each
\* came from; the first candidate that raises ends the call
RECURSIVE ValidateFrom(_, _, _, _)
ValidateFrom(items, i, current_date, major) ==
  IF i > Len(items) THEN [ok |-> TRUE, events |-> <<>>, from |-> <<>>]
  ELSE LET rep == RepairCandidate(items[i], current_date)
       IN IF ~rep.ok THEN rep
          ELSE LET rest == ValidateFrom(items, i + 1, current_date, major)
                   obj == ParseObj(rep.f, major)
               IN IF ~rest.ok THEN rest
                  ELSE IF obj.ok
                       THEN [ok |-> TRUE, events |-> <<obj.v>> \o rest.events,
                             from |-> <<i>> \o rest.from]
                       ELSE rest

\* parse_event(client, event_description), given the upstream reply:
\*   [kind |-> "error"]   the client call raised
\*   [kind |-> "text"]    content that json.loads rejects
\*   [kind |-> "json", data |-> value]
ParseEvent(reply, current_date, major) ==
  CASE reply.kind = "error" -> [ok |-> FALSE, err |-> "APIError"]
    [] reply.kind = "text" -> ValueError
    [] OTHER ->
         LET norm == NormalizeShape(reply.data)
         IN IF ~norm.ok THEN norm
            ELSE LET it == Iterate(norm.events)
                 IN IF ~it.ok THEN it
                    ELSE ValidateFrom(it.items, 1, current_date, major)

(***************************************************************************)
(* Inputs the checks range over                                            *)
(***************************************************************************)
T(str) == StrV(str)
Absent == [t |-> "absent"]

\* a dict from a record of values, without the Absent entries
MkObj(r) == ObjV([k \in {x \in DOMAIN r : r[x] # Absent} |-> r[k]])

Years == 2023..(2023 + YearSpan) \cup {9999}
MonthDays == {<<1, 1>>, <<2, 28>>, <<2, 29>>, <<10, 31>>, <<12, 31>>}
WrongOrderDate == <<"3", "1", "-", "1", "0", "-", "2", "0", "2", "4">>
\* well formed date texts, some of days that do not exist (29 February 2023)
DateTexts == {IsoDate([y |-> y, m |-> md[1], d |-> md[2]]) : y \in Years, md \in MonthDays}
EndDateTexts == {IsoDate([y |-> y, m |-> md[1], d |-> md[2]]) :
                   y \in Years, md \in {<<2, 28>>, <<12, 31>>}}
TimeTexts == {IsoTime(9, 0), IsoTime(23, 30)}
BadTimeText == <<"9", "a", "m">>
Utc == <<"U", "T", "C">>
Room5 == <<"R", "o", "o", "m", " ", "5">>
TwoParticipants == ListV(<<T(<<"a", "@", "x">>), T(<<"b", "@", "x">>)>>)

\* validated records handed to the builder
BuildEvents ==
  [name : {T(<<"A">>)},
   start_date : {T(d) : d \in DateTexts \cup {WrongOrderDate}},
   end_date : {NullV, T(<<>>)} \cup {T(d) : d \in EndDateTexts \cup {WrongOrderDate}},
   start_time : {NullV, T(<<>>), T(BadTimeText)} \cup {T(t) : t \in TimeTexts},
   end_time : {NullV, T(IsoTime(10, 30)), T(BadTimeText)},
   timezone : {NullV, T(Utc)},
   participants : {NullV, TwoParticipants},
   location : {NullV, T(Room5)},
   content : {NullV}]

\* today's date, as datetime.now().strftime("%Y-%m-%d") gives it
Today == IsoDate([y |-> 2024, m |-> 10, d |-> 30])
Oct31 == IsoDate([y |-> 2024, m |-> 10, d |-> 31])

\* candidate event objects of a response
ObjCandidates ==
  {MkObj([name |-> n, start_date |-> sd]) :
     n \in {Absent, NullV, T(<<>>), T(<<"A">>), NumV(7)},
     sd \in {Absent, NullV, T(<<>>), T(Oct31), NumV(0)}}
    \cup {MkObj([name |-> T(<<"A">>), start_date |-> T(Oct31), participants |-> p]) :
            p \in {T(<<"a">>), ListV(<<T(<<"a">>), NumV(7)>>)}}
NonObjCandidates == {T(<<"o", "o", "p", "s">>), NumV(5), NullV}
Candidates == ObjCandidates \cup NonObjCandidates
CandidateLists == UNION {[1..n -> Candidates] : n \in 0..MaxEvents}

Json(v) == [kind |-> "json", data |-> v]
Replies ==
  {[kind |-> "error"], [kind |-> "text"]}
    \cup {Json(ListV(c)) : c \in CandidateLists}
    \cup {Json(ObjV([k \in {"events"} |-> ListV(c)])) : c \in CandidateLists}
    \cup {Json(ObjV([k \in {"events"} |-> c])) : c \in Candidates}
    \cup {Json(c) : c \in Candidates}

(***************************************************************************)
(* State                                                                   *)
(***************************************************************************)
VARIABLES
  pydantic_major,      \* the installed pydantic: 1 or 2
  platform,            \* sys.platform
  api_input,           \* the API key field: TRUE when it holds text
  event_input,         \* the text of the description field
  structured_output,   \* the text of the output field
  message_boxes,       \* the message boxes shown, in order
  files,               \* the temporary files on disk: name -> calendar
  created,             \* how many temporary files were ever made
  pc,                  \* where generate_ics is
  event_descriptions,  \* generate_ics: the lines of the input
  line,                \* generate_ics: index of the current line
  all_parsed_events,   \* generate_ics: the records collected
  parsed_events,       \* generate_ics: the records of the current line
  k,                   \* generate_ics: index of the current record
  ics_filename,        \* generate_ics: the file of the current record
  calls,               \* history: the calls made, with their outcomes
  p_pc, p_reply, p_result,  \* one call of parse_event
  b_pc, b_event, b_result   \* one call of create_ics_file

appVars == <<api_input, event_input, structured_output, message_boxes, files, created,
             pc, event_descriptions, line, all_parsed_events, parsed_events, k,
             ics_filename, calls, platform>>
parseVars == <<p_pc, p_reply, p_result>>
buildVars == <<b_pc, b_event, b_result>>
vars == <<pydantic_major, appVars, parseVars, buildVars>>

NoText == [kind |-> "text", s |-> <<>>]

AppIdle ==
  /\ structured_output = NoText
  /\ message_boxes = <<>>
  /\ files = <<>>
  /\ created = 0
  /\ pc = "idle"
  /\ event_descriptions = <<>>
  /\ line = 0
  /\ all_parsed_events = <<>>
  /\ parsed_events = <<>>
  /\ k = 0
  /\ ics_filename = 0
  /\ calls = <<>>
ParseIdle == p_pc = "idle" /\ p_reply = [kind |-> "text"] /\ p_result = ValueError
BuildIdle == b_pc = "idle" /\ b_event = NullV /\ b_result = ValueError

(***************************************************************************)
(* One call of create_ics_file on a validated record                       *)
(***************************************************************************)
InitBuild ==
  /\ pydantic_major = 1 /\ platform = "linux"
  /\ api_input = FALSE /\ event_input = <<>>
  /\ AppIdle /\ ParseIdle
  /\ b_pc = "call" /\ b_event \in BuildEvents /\ b_result = ValueError

CallCreateIcsFile ==
  /\ b_pc = "call"
  /\ b_result' = BuildCalendar(b_event)
  /\ b_pc' = "returned"
  /\ UNCHANGED <<b_event, pydantic_major, appVars, parseVars>>

NextBuild == CallCreateIcsFile
SpecBuild == InitBuild /\ [][NextBuild]_vars

(***************************************************************************)
(* One call of parse_event on an upstream reply                            *)
(***************************************************************************)
InitParse ==
  /\ pydantic_major \in {1, 2} /\ platform = "linux"
  /\ api_input = FALSE /\ event_input = <<>>
  /\ AppIdle /\ BuildIdle
  /\ p_pc = "call" /\ p_reply \in Replies /\ p_result = ValueError

CallParseEvent ==
  /\ p_pc = "call"
  /\ p_result' = ParseEvent(p_reply, Today, pydantic_major)
  /\ p_pc' = "returned"
  /\ UNCHANGED <<p_reply, pydantic_major, appVars, buildVars>>

NextParse == CallParseEvent
SpecParse == InitParse /\ [][NextParse]_vars

(***************************************************************************)
(* generate_ics: one click on "Generate ICS"                               *)
(***************************************************************************)
Lines == {<<>>, <<" ">>, <<"a">>}
RECURSIVE JoinLines(_)
JoinLines(ls) == IF Len(ls) = 1 THEN ls[1]
                 ELSE ls[1] \o <<"\n">> \o JoinLines(Tail(ls))
InputTexts == {JoinLines(ls) : ls \in UNION {[1..n -> Lines] : n \in 1..MaxLines}}

GoodAllDay == MkObj([name |-> T(<<"A">>), start_date |-> T(Oct31)])
GoodTimed == MkObj([name |-> Absent, start_date |-> Absent,
                    start_time |-> T(IsoTime(9, 0)), timezone |-> T(Utc)])
BadDate == MkObj([name |-> T(<<"B">>), start_date |-> T(WrongOrderDate)])
BadTypes == MkObj([name |-> T(<<"C">>), participants |-> T(<<"a">>)])
Oops == T(<<"o", "o", "p", "s">>)

\* upstream replies to the descriptions of a batch
BatchReplies ==
  {[kind |-> "error"], [kind |-> "text"],
   Json(ListV(<<>>)),
   Json(ListV(<<GoodAllDay, GoodTimed>>)),
   Json(ListV(<<BadDate, GoodAllDay>>)),
   Json(ListV(<<GoodTimed, BadTypes>>)),
   Json(ListV(<<GoodAllDay, Oops>>)),
   Json(ObjV([x \in {"events"} |-> ListV(<<GoodTimed>>)]))}

\* The replies of a batch hold no numbers, so both pydantic versions validate
\* them alike: one is enough here.
InitApp ==
  /\ pydantic_major = 1
  /\ platform \in {"darwin", "win32", "linux"}
  /\ api_input \in BOOLEAN
  /\ event_input \in InputTexts
  /\ AppIdle /\ ParseIdle /\ BuildIdle

\* QMessageBox.critical(self, title, ...)
Critical(title) == [icon |-> "critical", title |-> title]
\* QMessageBox.warning(self, title, ...)
Warning(title) == [icon |-> "warning", title |-> title]

\* the except clause that takes an exception raised inside the try block
Handler(err) ==
  CASE err = "ValueError" -> Critical("Parsing Error")
    [] err = "IOError" -> Critical("File Error")
    [] OTHER -> Critical("Unexpected Error")

\* (mutant) the except clause gives up on the rest of the batch
AfterExceptionAbort(i) == Len(event_descriptions) + 1
\* where the for loop over the lines goes on after the except clause ran
AfterException(i) == i + 1

\* (mutant) assignment in place of extend
ExtendOverwrites(all, events) == events
\* all_parsed_events.extend(parsed_events)
Extend(all, events) == all \o events

\* json.dumps([event.dict() for event in all_parsed_events], ...)
Dumps(events) == Json(ListV([i \in 1..Len(events) |->
                               ObjV([f \in FieldNames |-> events[i][f]])]))

\* a history entry: the call, its outcome and, when it raised, the index of the
\* message box its exception was shown in
Call(op, i, j, ok, res) ==
  [op |-> op, line |-> i, k |-> j, ok |-> ok, res |-> res,
   box |-> IF ok THEN 0 ELSE Len(message_boxes) + 1]

\* an exception leaves the try block: message box, then the next line
Raise(err) ==
  /\ message_boxes' = Append(message_boxes, Handler(err))
  /\ line' = AfterException(line)
  /\ pc' = "loop"

Click ==
  /\ pc = "idle"
  /\ LET descriptions == Split(event_input, "\n")
     IN IF ~api_input \/ descriptions = <<>>
        THEN /\ message_boxes' = Append(message_boxes, Warning("Input Error"))
             /\ pc' = "returned"
             /\ UNCHANGED <<event_descriptions, line>>
        ELSE /\ event_descriptions' = descriptions
             /\ line' = 1
             /\ pc' = "loop"
             /\ UNCHANGED message_boxes
  /\ all_parsed_events' = <<>>
  /\ UNCHANGED <<pydantic_major, platform, api_input, event_input, structured_output,
                 files, created, parsed_events, k, ics_filename, calls,
                 parseVars, buildVars>>

\* "Skip empty lines"
SkipLine ==
  /\ pc = "loop" /\ line <= Len(event_descriptions)
  /\ Strip(event_descriptions[line]) = <<>>
  /\ line' = line + 1
  /\ UNCHANGED <<pydantic_major, platform, api_input, event_input, structured_output,
                 message_boxes, files, created, pc, event_descriptions,
                 all_parsed_events, parsed_events, k, ics_filename, calls,
                 parseVars, buildVars>>

\* parse_event and extend; an empty result ends the line at once
ParseLine ==
  /\ pc = "loop" /\ line <= Len(event_descriptions)
  /\ Strip(event_descriptions[line]) # <<>>
  /\ \E reply \in BatchReplies :
       LET r == ParseEvent(reply, Today, pydantic_major)
       IN /\ calls' = Append(calls, Call("parse", line, 0, r.ok, r))
          /\ IF r.ok
             THEN /\ parsed_events' = r.events
                  /\ all_parsed_events' = Extend(all_parsed_events, r.events)
                  /\ k' = 1
                  /\ IF r.events = <<>>
                     THEN pc' = "loop" /\ line' = line + 1
                     ELSE pc' = "create" /\ line' = line
                  /\ UNCHANGED message_boxes
             ELSE /\ Raise(r.err)
                  /\ UNCHANGED <<parsed_events, all_parsed_events, k>>
  /\ UNCHANGED <<pydantic_major, platform, api_input, event_input, structured_output,
                 files, created, event_descriptions, ics_filename,
                 parseVars, buildVars>>

\* create_ics_file(parsed_event): builds the calendar and writes the temporary file
CreateFile ==
  /\ pc = "create"
  /\ \E disk_ok \in BOOLEAN :
       LET r == BuildCalendar(parsed_events[k])
           err == IF ~r.ok THEN r.err ELSE "IOError"
       IN IF r.ok /\ disk_ok
          THEN /\ calls' = Append(calls, Call("create", line, k, TRUE, created + 1))
               /\ created' = created + 1
               /\ files' = files @@ (created + 1 :> r.cal)
               /\ ics_filename' = created + 1
               /\ pc' = "import"
               /\ UNCHANGED <<message_boxes, line>>
          ELSE /\ calls' = Append(calls, Call("create", line, k, FALSE, err))
               /\ Raise(err)
               /\ UNCHANGED <<created, files, ics_filename>>
  /\ UNCHANGED <<pydantic_major, platform, api_input, event_input, structured_output,
                 event_descriptions, all_parsed_events, parsed_events, k,
                 parseVars, buildVars>>

\* the files left once the opened file was removed
Removed(fs, name) == [n \in DOMAIN fs \ {name} |-> fs[n]]

\* import_ics_to_calendar(ics_filename), then the next record or the next line
ImportFile ==
  /\ pc = "import"
  /\ \E open_ok \in BOOLEAN, remove_ok \in BOOLEAN :
       IF open_ok
       THEN /\ calls' = Append(calls, Call("import", line, k, TRUE, ics_filename))
            /\ files' = IF platform = "darwin" /\ remove_ok
                        THEN Removed(files, ics_filename) ELSE files
            /\ IF k < Len(parsed_events)
               THEN k' = k + 1 /\ pc' = "create" /\ line' = line
               ELSE k' = k /\ pc' = "loop" /\ line' = line + 1
            /\ UNCHANGED message_boxes
       ELSE /\ calls' = Append(calls, Call("import", line, k, FALSE, ics_filename))
            /\ Raise("IOError")
            /\ UNCHANGED <<files, k>>
  /\ UNCHANGED <<pydantic_major, platform, api_input, event_input, structured_output,
                 created, event_descriptions, all_parsed_events, parsed_events,
                 ics_filename, parseVars, buildVars>>

\* after the loop: show the structured data and clear the input
Display ==
  /\ pc = "loop" /\ line > Len(event_descriptions)
  /\ structured_output' = Dumps(all_parsed_events)
  /\ event_input' = <<>>
  /\ pc' = "done"
  /\ UNCHANGED <<pydantic_major, platform, api_input, message_boxes, files, created,
                 event_descriptions, line, all_parsed_events, parsed_events, k,
                 ics_filename, calls, parseVars, buildVars>>

Next == Click \/ SkipLine \/ ParseLine \/ CreateFile \/ ImportFile \/ Display
Spec == InitApp /\ [][Next]_vars

(***************************************************************************)
(* Reading the history                                                     *)
(***************************************************************************)
NonBlank(i) == Strip(event_descriptions[i]) # <<>>
CallsOf(op, i, j) == {n \in DOMAIN calls :
                        calls[n].op = op /\ calls[n].line = i /\ calls[n].k = j}
Passed(op, i, j) == CallsOf(op, i, j) # {}
Succeeded(op, i, j) == \E n \in CallsOf(op, i, j) : calls[n].ok
ParseOf(i) == calls[CHOOSE n \in CallsOf("parse", i, 0) : TRUE]
Extracted(i) == Passed("parse", i, 0) /\ ParseOf(i).ok
RecordsOf(i) == ParseOf(i).res.events

\* C1: when generate_ics has finished, parse_event was called for every
\* non-blank line, whatever happened on the lines before it, and each record of
\* a line was passed to create_ics_file unless an earlier record of that same
\* line failed to be created or opened.
C1_BatchFaultIsolation ==
  pc = "done" =>
    \A i \in 1..Len(event_descriptions) :
      NonBlank(i) =>
        /\ Passed("parse", i, 0)
        /\ Extracted(i) =>
             \A j \in 1..Len(RecordsOf(i)) :
               (\A h \in 1..(j - 1) : Succeeded("create", i, h) /\ Succeeded("import", i, h))
                 => Passed("create", i, j)

\* a batch of three lines: extraction of the 2nd raised, the 1st and the 3rd
\* each had all their records created
C1_Witness ==
  /\ pc = "done"
  /\ Len(event_descriptions) = 3
  /\ \A i \in 1..3 : NonBlank(i)
  /\ Passed("parse", 2, 0) /\ ~ParseOf(2).ok
  /\ \A i \in {1, 3} :
       /\ Extracted(i) /\ Len(RecordsOf(i)) = 2
       /\ \A j \in 1..2 : Succeeded("create", i, j)

\* C2: when create_ics_file raises ValueError (a malformed date or time) for one
\* record of a line, every record of that line is still passed to
\* create_ics_file.
C2_SiblingRecordsSurviveBadDate ==
  pc = "done" =>
    \A n \in DOMAIN calls :
      (calls[n].op = "create" /\ ~calls[n].ok /\ calls[n].res = "ValueError") =>
        \A j \in 1..Len(RecordsOf(calls[n].line)) : Passed("create", calls[n].line, j)

\* C3: a failed open is shown as a warning only, the file written for the record
\* stays on disk, and every record of the same line is still passed to
\* create_ics_file.
C3_OpenFailureIsOnlyAWarning ==
  pc = "done" =>
    \A n \in DOMAIN calls :
      (calls[n].op = "import" /\ ~calls[n].ok) =>
        /\ message_boxes[calls[n].box].icon = "warning"
        /\ calls[n].res \in DOMAIN files
        /\ \A j \in 1..Len(RecordsOf(calls[n].line)) : Passed("create", calls[n].line, j)

\* the records of the successful parse_event calls of lines 1..n, in line order
RECURSIVE RecordsUpTo(_)
RecordsUpTo(n) ==
  IF n = 0 THEN <<>>
  ELSE RecordsUpTo(n - 1) \o (IF NonBlank(n) /\ Extracted(n) THEN RecordsOf(n) ELSE <<>>)

\* C10: when generate_ics has finished, the structured data shown is the list of
\* the records every successful parse_event call returned, in line order and
\* then response order, each with its nine fields; failures of create_ics_file
\* or of the open action remove nothing.
C10_DisplayedRecords ==
  pc = "done" =>
    LET want == RecordsUpTo(Len(event_descriptions))
    IN /\ structured_output.kind = "json"
       /\ structured_output.data.t = "list"
       /\ Len(structured_output.data.items) = Len(want)
       /\ \A n \in 1..Len(want) :
            /\ structured_output.data.items[n].t = "obj"
            /\ DOMAIN structured_output.data.items[n].f = FieldNames
            /\ \A f \in FieldNames : structured_output.data.items[n].f[f] = want[n][f]

\* three lines: the 1st has a record whose file could not be created, the 2nd
\* failed extraction, the 3rd has a record whose file could not be opened; the
\* records of the 1st and 3rd are all shown
C10_Witness ==
  /\ pc = "done"
  /\ Len(event_descriptions) = 3
  /\ \A i \in 1..3 : NonBlank(i) /\ Passed("parse", i, 0)
  /\ ~ParseOf(2).ok
  /\ Extracted(1) /\ Len(RecordsOf(1)) = 2 /\ Passed("create", 1, 1)
  /\ ~Succeeded("create", 1, 1)
  /\ Extracted(3) /\ Len(RecordsOf(3)) = 2 /\ Passed("import", 3, 1)
  /\ ~Succeeded("import", 3, 1)
  /\ Len(structured_output.data.items) = 4

(***************************************************************************)
(* Claims about parse_event                                                *)
(***************************************************************************)
\* the candidates of the reply given to parse_event, when it holds a sequence
ReplyItems == Iterate(NormalizeShape(p_reply.data).events).items
HoldsCandidateList ==
  /\ p_reply.kind = "json"
  /\ NormalizeShape(p_reply.data).ok
  /\ NormalizeShape(p_reply.data).events.t = "list"

\* a candidate that validates once name and start_date are defaulted
Coerces(c) ==
  /\ c.t = "obj"
  /\ ParseObj(RepairCandidate(c, Today).f, pydantic_major).ok

\* the indices in 1..n of the candidates that coerce, in increasing order
RECURSIVE CoercingUpTo(_)
CoercingUpTo(n) ==
  IF n = 0 THEN <<>>
  ELSE CoercingUpTo(n - 1) \o (IF Coerces(ReplyItems[n]) THEN <<n>> ELSE <<>>)

\* C4: for a reply holding a sequence of candidates, parse_event returns without
\* raising, and returns exactly the candidates that coerce, in their order,
\* whether the others have wrong field types or are no objects at all.
C4_BadCandidatesAreSkipped ==
  (p_pc = "returned" /\ HoldsCandidateList) =>
    /\ p_result.ok
    /\ p_result.from = CoercingUpTo(Len(ReplyItems))

\* C5: the four accepted shapes all become a list of event objects: a top-level
\* list as it is, a single object as a one-element list, a list under "events"
\* as that list, a single object under "events" as a one-element list.
C5_ShapesBecomeLists ==
  (p_pc = "returned" /\ p_reply.kind = "json"
     /\ (p_reply.data.t = "list" \/ p_reply.data.t = "obj")) =>
    LET d == p_reply.data
        events == NormalizeShape(d).events
    IN IF d.t = "list" THEN events = d
       ELSE IF "events" \notin DOMAIN d.f THEN events = ListV(<<d>>)
       ELSE IF d.f["events"].t = "list" THEN events = d.f["events"]
       ELSE d.f["events"].t = "obj" => events = ListV(<<d.f["events"]>>)

\* a field that is missing (no key, or null) or empty
Lacks(c, key) == key \notin DOMAIN c.f \/ c.f[key] = NullV \/ c.f[key] = StrV(<<>>)
\* a field that holds a non-empty string
HoldsText(c, key) == key \in DOMAIN c.f /\ c.f[key].t = "str" /\ c.f[key].s # <<>>

\* C6: every record parse_event returns has the name "Untitled Event" when its
\* candidate's name is missing or empty, and the reference date as start_date
\* when its candidate's start_date is missing or empty; a non-empty name or
\* start_date string is kept; name and start_date are never empty.
C6_Defaults ==
  (p_pc = "returned" /\ p_result.ok) =>
    \A n \in 1..Len(p_result.events) :
      LET c == ReplyItems[p_result.from[n]]
          rec == p_result.events[n]
      IN /\ Lacks(c, "name") => rec.name = StrV(UntitledEvent)
         /\ Lacks(c, "start_date") => rec.start_date = StrV(Today)
         /\ HoldsText(c, "name") => rec.name = c.f["name"]
         /\ HoldsText(c, "start_date") => rec.start_date = c.f["start_date"]
         /\ rec.name.t = "str" /\ rec.name.s # <<>>
         /\ rec.start_date.t = "str" /\ rec.start_date.s # <<>>

\* a reply of two candidates, one without name and start_date, one with both:
\* both are returned, the first with the two defaults
C6_Witness ==
  /\ p_pc = "returned" /\ p_result.ok
  /\ Len(p_result.events) = 2
  /\ "name" \notin DOMAIN ReplyItems[1].f
  /\ "start_date" \notin DOMAIN ReplyItems[1].f
  /\ p_result.events[1].name = StrV(UntitledEvent)
  /\ p_result.events[1].start_date = StrV(Today)
  /\ HoldsText(ReplyItems[2], "name") /\ HoldsText(ReplyItems[2], "start_date")
  /\ p_result.events[2].start_date = StrV(Oct31)

(***************************************************************************)
(* Claims about create_ics_file                                            *)
(***************************************************************************)
\* an optional field that holds something
Present(v) == v # NullV /\ v # StrV(<<>>)

\* the date a YYYY-MM-DD text names, read by position
DateAt(s) == [y |-> NumOf(SubSeq(s, 1, 4)), m |-> NumOf(SubSeq(s, 6, 7)),
              d |-> NumOf(SubSeq(s, 9, 10))]
WellFormedDate(s) ==
  /\ Len(s) = 10 /\ s[5] = "-" /\ s[8] = "-"
  /\ AllDigits(SubSeq(s, 1, 4)) /\ AllDigits(SubSeq(s, 6, 7)) /\ AllDigits(SubSeq(s, 9, 10))
  /\ DateAt(s).y >= 1 /\ DateAt(s).m \in 1..12
  /\ DateAt(s).d \in 1..DaysInMonth(DateAt(s).y, DateAt(s).m)
\* the time an HH:MM text names, read by position
WellFormedTime(s) ==
  /\ Len(s) = 5 /\ s[3] = ":"
  /\ AllDigits(SubSeq(s, 1, 2)) /\ AllDigits(SubSeq(s, 4, 5))
  /\ NumOf(SubSeq(s, 1, 2)) < 24 /\ NumOf(SubSeq(s, 4, 5)) < 60
HourAt(s) == NumOf(SubSeq(s, 1, 2))
MinuteAt(s) == NumOf(SubSeq(s, 4, 5))

\* the calendar day after a day
NextDay(dt) ==
  IF dt.d < DaysInMonth(dt.y, dt.m) THEN [y |-> dt.y, m |-> dt.m, d |-> dt.d + 1]
  ELSE IF dt.m < 12 THEN [y |-> dt.y, m |-> dt.m + 1, d |-> 1]
  ELSE [y |-> dt.y + 1, m |-> 1, d |-> 1]
LastDay(dt) == dt.y = 9999 /\ dt.m = 12 /\ dt.d = 31

SameDay(v, dt) == v.y = dt.y /\ v.m = dt.m /\ v.d = dt.d
IsDateOn(v, dt) == v.kind = "date" /\ SameDay(v, dt)
IsDateTimeAt(v, dt, h, mi) == v.kind = "datetime" /\ SameDay(v, dt) /\ v.H = h /\ v.M = mi

\* the text of end_date if present, otherwise of start_date
EndDateText(e) == IF Present(e.end_date) THEN e.end_date.s ELSE e.start_date.s
DatesWellFormed(e) ==
  /\ WellFormedDate(e.start_date.s)
  /\ Present(e.end_date) => WellFormedDate(e.end_date.s)

\* C7: a record without start_time, with well formed dates, gets a date-only
\* start on start_date and a date-only end on the day after (end_date if
\* present, otherwise start_date), across month and year ends; end_time plays
\* no part.  (No day follows 9999-12-31.)
C7_AllDayEnd ==
  (b_pc = "returned" /\ ~Present(b_event.start_time) /\ DatesWellFormed(b_event)
     /\ ~LastDay(DateAt(EndDateText(b_event)))) =>
    /\ b_result.ok
    /\ IsDateOn(b_result.cal.dtstart, DateAt(b_event.start_date.s))
    /\ IsDateOn(b_result.cal.dtend, NextDay(DateAt(EndDateText(b_event))))

\* start_date 2024-10-31, no end_date, no start_time, an end_time that would
\* not even parse: start 2024-10-31, end 2024-11-01
C7_Witness ==
  /\ b_pc = "returned" /\ b_result.ok
  /\ b_event.start_date = StrV(Oct31)
  /\ b_event.end_date = NullV /\ b_event.start_time = NullV
  /\ b_event.end_time = StrV(BadTimeText)
  /\ b_result.cal.dtstart = [kind |-> "date", y |-> 2024, m |-> 10, d |-> 31]
  /\ b_result.cal.dtend = [kind |-> "date", y |-> 2024, m |-> 11, d |-> 1]

\* C8: a record with a well formed start_time and well formed dates gets the
\* start timestamp start_date + start_time; its end timestamp is (end_date if
\* present, otherwise start_date) + end_time when end_time is present, and
\* otherwise one hour after the start, on the next day from 23:00 on, whatever
\* end_date is.
C8_TimedEnd ==
  (b_pc = "returned" /\ Present(b_event.start_time) /\ DatesWellFormed(b_event)
     /\ WellFormedTime(b_event.start_time.s)
     /\ (Present(b_event.end_time) => WellFormedTime(b_event.end_time.s))
     /\ (Present(b_event.end_time) \/ ~LastDay(DateAt(b_event.start_date.s)))) =>
    LET day == DateAt(b_event.start_date.s)
        h == HourAt(b_event.start_time.s)
        mi == MinuteAt(b_event.start_time.s)
    IN /\ b_result.ok
       /\ IsDateTimeAt(b_result.cal.dtstart, day, h, mi)
       /\ IF Present(b_event.end_time)
          THEN IsDateTimeAt(b_result.cal.dtend, DateAt(EndDateText(b_event)),
                            HourAt(b_event.end_time.s), MinuteAt(b_event.end_time.s))
          ELSE IF h < 23
          THEN IsDateTimeAt(b_result.cal.dtend, day, h + 1, mi)
          ELSE IsDateTimeAt(b_result.cal.dtend, NextDay(day), 0, mi)

\* start 2024-12-31 23:30, no end_time, an end_date in another year: the end is
\* 2025-01-01 00:30
C8_Witness ==
  /\ b_pc = "returned" /\ b_result.ok
  /\ b_event.start_date = StrV(IsoDate([y |-> 2024, m |-> 12, d |-> 31]))
  /\ b_event.start_time = StrV(IsoTime(23, 30))
  /\ b_event.end_time = NullV
  /\ b_event.end_date = StrV(IsoDate([y |-> 2023, m |-> 2, d |-> 28]))
  /\ b_result.cal.dtend.y = 2025 /\ b_result.cal.dtend.m = 1 /\ b_result.cal.dtend.d = 1
  /\ b_result.cal.dtend.H = 0 /\ b_result.cal.dtend.M = 30

\* C9: the start and end timestamps of a timed record both carry the record's
\* timezone when it has one, and none when it has none.
C9_TimezoneOnBothTimestamps ==
  (b_pc = "returned" /\ b_result.ok /\ Present(b_event.start_time)) =>
    LET zone == IF Present(b_event.timezone) THEN b_event.timezone ELSE NullV
    IN /\ b_result.cal.dtstart.tzinfo = zone
       /\ b_result.cal.dtend.tzinfo = zone

====
